---- MODULE Spec2Model ----
(***************************************************************************)
(* A model of minitorch module 0: the Module/Parameter tree of             *)
(* minitorch/module.py and the scalar operators of minitorch/operators.py. *)
(*                                                                         *)
(* Python objects are heap cells: modules are the ids 1..NumModules,       *)
(* Parameter objects are the indices of the sequence `params`, and the     *)
(* values a Parameter wraps are the ids in Values.  A dict is a sequence   *)
(* of <<key, value>> pairs in insertion order.  Names are strings, joined  *)
(* with \o as the f-string of named_parameters joins them.                 *)
(***************************************************************************)
EXTENDS Integers, Sequences, FiniteSets, TLC

VARIABLES
    _modules,       \* [module -> dict name -> module]      (Module._modules)
    _parameters,    \* [module -> dict name -> Parameter]   (Module._parameters)
    fields,         \* [module -> plain instance fields]    (training, and any other plain field)
    params,         \* heap of Parameter objects: <<[value, name], ...>>
    requires_grad,  \* [value with the capability -> flag set by requires_grad_]
    vname,          \* [value with the capability -> its .name]
    last            \* the last call made and what it returned

vars == <<_modules, _parameters, fields, params, requires_grad, vname, last>>

---------------------------------------------------------------------------
(* Bounds *)

NumModules == 3     \* module objects constructed
MaxParams == 2      \* Parameter objects ever constructed
NumVars == 1        \* wrapped values that expose requires_grad_
MaxAbs == 1         \* operator arguments range over -MaxAbs..MaxAbs
MaxLen == 2         \* length of the lists given to the list operators

Modules == 1..NumModules
\* The first module constructed, the root in the examples, and the next one.
Receiver == CHOOSE m \in Modules : \A n \in Modules : m <= n
Child == Receiver + 1
VarValues == 1..NumVars             \* values with requires_grad_ and .name (a Scalar, a Tensor)
PlainValue == 0                     \* a value without the capability (the 5 of add_parameter("x", 5))
Values == {PlainValue} \cup VarValues

---------------------------------------------------------------------------
(* Python values *)

\* Optional[str]: None, or a string.
None == [isNone |-> TRUE, s |-> ""]
Str(s) == [isNone |-> FALSE, s |-> s]

\* Python truthiness of an Optional[str], the test of `if self.name:`.
Truthy(n) == ~n.isNone /\ n.s # ""

\* hasattr(x, "requires_grad_")
HasRequiresGrad(x) == x \in VarValues

\* A dict as a sequence of <<key, value>> pairs.
Keys(d) == {d[i][1] : i \in 1..Len(d)}
HasKey(d, k) == k \in Keys(d)
IndexOf(d, k) == CHOOSE i \in 1..Len(d) : d[i][1] = k
Get(d, k) == d[IndexOf(d, k)][2]
DictValues(d) == [i \in 1..Len(d) |-> d[i][2]]

\* d[k] = v: an existing key keeps its place, a new key goes to the end.
DictSetAppendAlways(d, k, v) == Append(d, <<k, v>>)

DictSet(d, k, v) ==
    IF HasKey(d, k) THEN [d EXCEPT ![IndexOf(d, k)] = <<k, v>>]
    ELSE Append(d, <<k, v>>)

\* The values an attribute read or an attribute assignment carries.
ParamRef(p) == [kind |-> "Parameter", param |-> p]
ModuleRef(m) == [kind |-> "Module", module |-> m]
Plain(b) == [kind |-> "plain", plain |-> b]
Method(k) == [kind |-> "method", method |-> k]
NoneValue == [kind |-> "None"]

---------------------------------------------------------------------------
(* Parameter *)

\* The body shared by Parameter.__init__ and Parameter.update, on the value's
\* side: requires_grad_(True), and the name when the name is truthy.
MarkedNever(rg, x) == rg

Marked(rg, x) == IF HasRequiresGrad(x) THEN [rg EXCEPT ![x] = TRUE] ELSE rg

Named(vn, x, name) ==
    IF HasRequiresGrad(x) /\ Truthy(name) THEN [vn EXCEPT ![x] = name] ELSE vn

\* Parameter(x, name): a new object on the heap.
ParameterInit(x, name) ==
    /\ Len(params) < MaxParams
    /\ params' = Append(params, [value |-> x, name |-> name])
    /\ requires_grad' = Marked(requires_grad, x)
    /\ vname' = Named(vname, x, name)
    /\ last' = [op |-> "Parameter", param |-> Len(params) + 1, x |-> x, name |-> name]
    /\ UNCHANGED <<_modules, _parameters, fields>>

Updated(p, x) == [value |-> x, name |-> params[p].name]

\* Parameter.update(x)
ParameterUpdate(p, x) ==
    /\ p \in 1..Len(params)
    /\ params' = [params EXCEPT ![p] = Updated(p, x)]
    /\ requires_grad' = Marked(requires_grad, x)
    /\ vname' = Named(vname, x, params[p].name)
    /\ last' = [op |-> "update", param |-> p, x |-> x]
    /\ UNCHANGED <<_modules, _parameters, fields>>

---------------------------------------------------------------------------
(* Module *)

\* Module.__init__: two empty dicts and training = True, each a plain field.
Init ==
    /\ _modules = [m \in Modules |-> <<>>]
    /\ _parameters = [m \in Modules |-> <<>>]
    /\ fields = [m \in Modules |-> [k \in {"training"} |-> TRUE]]
    /\ params = <<>>
    /\ requires_grad = [x \in VarValues |-> FALSE]
    /\ vname = [x \in VarValues |-> None]
    /\ last = [op |-> "init"]

\* The attributes the class itself defines: its methods.
ClassAttrs ==
    {"modules", "train", "eval", "named_parameters", "parameters", "add_parameter"}

\* object.__setattr__(key, val): a plain field of the instance.
PlainSet(f, key, val) == [k \in DOMAIN f \cup {key} |-> IF k = key THEN val ELSE f[k]]

\* The modules reachable from m through _modules, m included.
RECURSIVE Reach(_, _)
Reach(frontier, seen) ==
    IF frontier \subseteq seen THEN seen
    ELSE Reach(UNION {{c[2] : c \in {_modules[m][i] : i \in 1..Len(_modules[m])}} : m \in frontier},
               seen \cup frontier)
Descendants(m) == Reach({m}, {})

\* Module.train
RECURSIVE train(_, _), trainAll(_, _)
trainSelfOnly(m, f) == [f EXCEPT ![m] = PlainSet(@, "training", TRUE)]

train(m, f) ==
    trainAll(DictValues(_modules[m]), [f EXCEPT ![m] = PlainSet(@, "training", TRUE)])
trainAll(children, f) ==
    IF children = <<>> THEN f
    ELSE trainAll(Tail(children), train(Head(children), f))

\* Module.eval
RECURSIVE eval(_, _), evalAll(_, _)
eval(m, f) ==
    evalAll(DictValues(_modules[m]), [f EXCEPT ![m] = PlainSet(@, "training", FALSE)])
evalAll(children, f) ==
    IF children = <<>> THEN f
    ELSE evalAll(Tail(children), eval(Head(children), f))

Train(m) ==
    /\ fields' = train(m, fields)
    /\ last' = [op |-> "train", module |-> m, ret |-> NoneValue]
    /\ UNCHANGED <<_modules, _parameters, params, requires_grad, vname>>

Eval(m) ==
    /\ fields' = eval(m, fields)
    /\ last' = [op |-> "eval", module |-> m, ret |-> NoneValue]
    /\ UNCHANGED <<_modules, _parameters, params, requires_grad, vname>>

\* f"{module_name}.{param_name}"
Qualified(module_name, param_name) == module_name \o "." \o param_name

\* Module.named_parameters
RECURSIVE named_parameters(_), childNamedParameters(_)
named_parametersChildrenFirst(m) ==
    childNamedParameters(_modules[m]) \o _parameters[m]

named_parameters(m) ==
    _parameters[m] \o childNamedParameters(_modules[m])
childNamedParameters(items) ==
    IF items = <<>> THEN <<>>
    ELSE LET sub == named_parameters(Head(items)[2])
         IN [i \in 1..Len(sub) |-> <<Qualified(Head(items)[1], sub[i][1]), sub[i][2]>>]
            \o childNamedParameters(Tail(items))

\* Module.parameters, run to exhaustion: list(m.parameters())
RECURSIVE parameters(_), childParameters(_)
parametersOwnOnly(m) == DictValues(_parameters[m])

parameters(m) ==
    DictValues(_parameters[m]) \o childParameters(DictValues(_modules[m]))
childParameters(children) ==
    IF children = <<>> THEN <<>>
    ELSE parameters(Head(children)) \o childParameters(Tail(children))

NamedParameters(m) ==
    /\ last' = [op |-> "named_parameters", module |-> m, ret |-> named_parameters(m)]
    /\ UNCHANGED <<_modules, _parameters, fields, params, requires_grad, vname>>

Parameters(m) ==
    /\ last' = [op |-> "parameters", module |-> m, ret |-> parameters(m)]
    /\ UNCHANGED <<_modules, _parameters, fields, params, requires_grad, vname>>

\* Module.add_parameter(k, v)
AddParameter(m, k, v) ==
    /\ Len(params) < MaxParams
    /\ params' = Append(params, [value |-> v, name |-> Str(k)])
    /\ requires_grad' = Marked(requires_grad, v)
    /\ vname' = Named(vname, v, Str(k))
    /\ _parameters' = [_parameters EXCEPT ![m] = DictSet(@, k, Len(params) + 1)]
    /\ last' = [op |-> "add_parameter", module |-> m, key |-> k, v |-> v,
                ret |-> ParamRef(Len(params) + 1)]
    /\ UNCHANGED <<_modules, fields>>

\* Module.__setattr__(key, val)
SetAttrStores(m, key, val) ==
    IF val.kind = "Parameter" THEN
        /\ _parameters' = [_parameters EXCEPT ![m] = DictSet(@, key, val.param)]
        /\ UNCHANGED <<_modules, fields>>
    ELSE IF val.kind = "Module" THEN
        /\ _modules' = [_modules EXCEPT ![m] = DictSet(@, key, val.module)]
        /\ UNCHANGED <<_parameters, fields>>
    ELSE
        /\ fields' = [fields EXCEPT ![m] = PlainSet(@, key, val.plain)]
        /\ UNCHANGED <<_modules, _parameters>>

\* The class documents that modules form a tree: a module is attached only where
\* it closes no cycle.
Attachable(m, key, val) ==
    val.kind = "Module" => m \notin Descendants(val.module)

SetAttr(m, key, val) ==
    /\ Attachable(m, key, val)
    /\ SetAttrStores(m, key, val)
    /\ last' = [op |-> "setattr", module |-> m, key |-> key, val |-> val]
    /\ UNCHANGED <<params, requires_grad, vname>>

\* Module.__getattr__(key), called when the normal lookup finds nothing.
getattrModulesFirst(m, key) ==
    IF HasKey(_modules[m], key) THEN ModuleRef(Get(_modules[m], key))
    ELSE IF HasKey(_parameters[m], key) THEN ParamRef(Get(_parameters[m], key))
    ELSE NoneValue

getattr(m, key) ==
    IF HasKey(_parameters[m], key) THEN ParamRef(Get(_parameters[m], key))
    ELSE IF HasKey(_modules[m], key) THEN ModuleRef(Get(_modules[m], key))
    ELSE NoneValue

\* Reading m.key: the instance's plain fields, then the class, then __getattr__.
ReadAttr(m, key) ==
    IF key \in DOMAIN fields[m] THEN Plain(fields[m][key])
    ELSE IF key \in ClassAttrs THEN Method(key)
    ELSE getattr(m, key)

GetAttr(m, key) ==
    /\ last' = [op |-> "getattr", module |-> m, key |-> key, ret |-> ReadAttr(m, key)]
    /\ UNCHANGED <<_modules, _parameters, fields, params, requires_grad, vname>>

---------------------------------------------------------------------------
(* The module tree: parameters added, modules attached, parameters listed *)

TreeParamNames == {"w", "lin.w"}
TreeModuleNames == {"lin", "w"}

NextTree ==
    \/ \E m \in Modules, k \in TreeParamNames : AddParameter(m, k, PlainValue)
    \/ \E m \in Modules, k \in TreeModuleNames, c \in Modules : SetAttr(m, k, ModuleRef(c))
    \/ \E m \in Modules : NamedParameters(m)
    \/ \E m \in Modules : Parameters(m)

Spec == Init /\ [][NextTree]_vars

---------------------------------------------------------------------------
(* Modes: modules attached, flags set directly, train and eval *)

NextMode ==
    \/ \E m \in Modules, k \in TreeModuleNames, c \in Modules : SetAttr(m, k, ModuleRef(c))
    \/ \E m \in Modules, b \in BOOLEAN : SetAttr(m, "training", Plain(b))
    \/ \E m \in Modules : Train(m)
    \/ \E m \in Modules : Eval(m)

SpecMode == Init /\ [][NextMode]_vars

---------------------------------------------------------------------------
(* Attributes: assignments of every kind to one module, and reads *)

AttrNames == {"x", "train"}

AssignableValues ==
    {ParamRef(p) : p \in 1..Len(params)} \cup {ModuleRef(Child)}
        \cup {Plain(b) : b \in BOOLEAN}

NextAttr ==
    \/ ParameterInit(PlainValue, None)
    \/ \E k \in AttrNames : AddParameter(Receiver, k, PlainValue)
    \/ \E k \in AttrNames, val \in AssignableValues : SetAttr(Receiver, k, val)
    \/ \E k \in AttrNames : GetAttr(Receiver, k)

SpecAttr == Init /\ [][NextAttr]_vars

---------------------------------------------------------------------------
(* Parameters: construction and update over values with and without requires_grad_ *)

ParamNames == {None, Str(""), Str("w"), Str("b")}

NextParam ==
    \/ \E x \in Values, n \in ParamNames : ParameterInit(x, n)
    \/ \E p \in 1..MaxParams, x \in Values : ParameterUpdate(p, x)
    \/ \E k \in {"", "w"}, v \in Values : AddParameter(Receiver, k, v)

SpecParam == Init /\ [][NextParam]_vars

---------------------------------------------------------------------------
(* Claims about the module tree *)

\* The listing of module m's children, as the claim describes it: the total
\* length of the listings of the first j children of the dict kids.
RECURSIVE SumLens(_, _)
SumLens(kids, j) ==
    IF j = 0 THEN 0 ELSE SumLens(kids, j - 1) + Len(named_parameters(kids[j][2]))

\* C1: named_parameters() on a module returns the module's own (name, Parameter)
\* pairs first, in the order of its parameter mapping, and then, for each child in
\* the order of the child mapping, the child's named_parameters() with every name
\* rewritten to "<child attachment name>.<name>".
C1_NamedParametersOrder ==
    last.op = "named_parameters" =>
        LET m == last.module
            ret == last.ret
            own == _parameters[m]
            kids == _modules[m]
            Sub(j) == named_parameters(kids[j][2])
            Off(j) == Len(own) + SumLens(kids, j - 1)
        IN  /\ Len(ret) = Len(own) + SumLens(kids, Len(kids))
            /\ \A i \in 1..Len(own) : ret[i] = own[i]
            /\ \A j \in 1..Len(kids) : \A i \in 1..Len(Sub(j)) :
                    ret[Off(j) + i] = <<kids[j][1] \o "." \o Sub(j)[i][1], Sub(j)[i][2]>>

\* The spec's example: a root with one parameter of its own and the child "lin"
\* holding the parameter "w" lists the root's parameter and then "lin.w".
C1_Witness ==
    /\ last.op = "named_parameters"
    /\ last.module = Receiver
    /\ Len(_parameters[Receiver]) = 1
    /\ Len(_modules[Receiver]) = 1
    /\ last.ret = <<<<"w", 1>>, <<"lin.w", 2>>>>

\* C2: no two pairs returned by named_parameters() on the root carry the same
\* dotted name.
C2_UniqueQualifiedNames ==
    last.op = "named_parameters" =>
        \A i, j \in 1..Len(last.ret) : i # j => last.ret[i][1] # last.ret[j][1]

\* C4: parameters() yields the second components of named_parameters() on the
\* same module, element for element, the module's own parameters first.
C4_ParametersMatchNamed ==
    last.op = "parameters" =>
        LET m == last.module
            named == named_parameters(m)
        IN  /\ last.ret = [i \in 1..Len(named) |-> named[i][2]]
            /\ \A i \in 1..Len(_parameters[m]) : last.ret[i] = _parameters[m][i][2]

\* A module with a parameter of its own and a child's parameter after it.
C4_Witness ==
    /\ last.op = "parameters"
    /\ Len(_parameters[last.module]) = 1
    /\ Len(last.ret) = 2
    /\ last.ret[1] # last.ret[2]

\* C3: after train() (eval()) on a module, the training flag of the module and of
\* every descendant is True (False), nothing is returned, and a second call
\* changes no flag.
C3_ModePropagates ==
    /\ last.op = "train" =>
            /\ \A d \in Descendants(last.module) : fields[d]["training"] = TRUE
            /\ last.ret = NoneValue
            /\ train(last.module, fields) = fields
    /\ last.op = "eval" =>
            /\ \A d \in Descendants(last.module) : fields[d]["training"] = FALSE
            /\ last.ret = NoneValue
            /\ eval(last.module, fields) = fields

\* train() on the root of a chain of three modules.
C3_Witness ==
    /\ last.op = "train"
    /\ Len(_modules[last.module]) = 1
    /\ Descendants(last.module) = Modules
    /\ \A d \in Modules : fields[d]["training"] = TRUE

---------------------------------------------------------------------------
(* Claims about attributes *)

\* What add_parameter(k, v) leaves behind: a new Parameter wrapping v and named
\* k, the only entry for k in the module's parameter mapping, and returned.
AddParameterStored ==
    LET m == last.module
        k == last.key
        p == last.ret.param
    IN  /\ last.ret.kind = "Parameter"
        /\ p = Len(params)
        /\ params[p] = [value |-> last.v, name |-> Str(k)]
        /\ Cardinality({i \in 1..Len(_parameters[m]) : _parameters[m][i][1] = k}) = 1
        /\ Get(_parameters[m], k) = p

\* C5 as stated: for any name k, after add_parameter(k, v) the Parameter is
\* stored and returned, and reading attribute k returns that Parameter.
C5_ReadAfterAddAnyName ==
    last.op = "add_parameter" =>
        /\ AddParameterStored
        /\ ReadAttr(last.module, last.key) = last.ret

\* C5, amended: the same, the read being of a name that is neither a plain field
\* of the module nor an attribute of the class.
C5_ReadAfterAdd ==
    last.op = "add_parameter" =>
        /\ AddParameterStored
        /\ (last.key \notin DOMAIN fields[last.module] /\ last.key \notin ClassAttrs)
                => ReadAttr(last.module, last.key) = last.ret

\* add_parameter overwrites an entry and the read returns the new Parameter.
C5_Witness ==
    /\ last.op = "add_parameter"
    /\ last.key = "x"
    /\ last.ret.param = 2
    /\ Len(_parameters[last.module]) = 1
    /\ "x" \notin DOMAIN fields[last.module]
    /\ ReadAttr(last.module, "x") = ParamRef(2)

\* The entry __getattr__ finds: the parameter mapping first, then the children.
Routed(m, k) ==
    IF HasKey(_parameters[m], k) THEN ParamRef(Get(_parameters[m], k))
    ELSE IF HasKey(_modules[m], k) THEN ModuleRef(Get(_modules[m], k))
    ELSE NoneValue

\* An assignment writes one store, the one the value's type selects, under the
\* field name, and leaves the other two stores as they were.
SetAttrFrame ==
    last'.op = "setattr" =>
        LET m == last'.module
            k == last'.key
            val == last'.val
            Others(d, e) ==
                /\ Keys(e) = Keys(d) \cup {k}
                /\ \A k2 \in Keys(d) \ {k} : Get(e, k2) = Get(d, k2)
        IN  /\ val.kind = "Parameter" =>
                /\ Get(_parameters'[m], k) = val.param
                /\ Others(_parameters[m], _parameters'[m])
                /\ \A m2 \in Modules \ {m} : _parameters'[m2] = _parameters[m2]
                /\ UNCHANGED <<_modules, fields>>
            /\ val.kind = "Module" =>
                /\ Get(_modules'[m], k) = val.module
                /\ Others(_modules[m], _modules'[m])
                /\ \A m2 \in Modules \ {m} : _modules'[m2] = _modules[m2]
                /\ UNCHANGED <<_parameters, fields>>
            /\ val.kind = "plain" =>
                /\ fields'[m][k] = val.plain
                /\ \A k2 \in DOMAIN fields[m] \ {k} : fields'[m][k2] = fields[m][k2]
                /\ DOMAIN fields'[m] = DOMAIN fields[m] \cup {k}
                /\ \A m2 \in Modules \ {m} : fields'[m2] = fields[m2]
                /\ UNCHANGED <<_modules, _parameters>>

\* C10 as stated, its read: a read of a name that is not a plain field returns
\* the parameter-mapping entry if present, else the child-mapping entry if
\* present, else None.
C10_ReadNotPlainField ==
    last.op = "getattr" =>
        (last.key \notin DOMAIN fields[last.module]
            => last.ret = Routed(last.module, last.key))

\* C10, amended: an assignment writes exactly the store its value's type selects;
\* a read of a name that is neither a plain field nor an attribute of the class
\* returns the parameter-mapping entry if present, else the child-mapping entry
\* if present, else None; a read never raises.
C10_AttributeRouting ==
    /\ [][SetAttrFrame]_vars
    /\ [](last.op = "getattr" =>
            /\ last.ret.kind \in {"Parameter", "Module", "plain", "method", "None"}
            /\ (last.key \notin DOMAIN fields[last.module] /\ last.key \notin ClassAttrs)
                    => last.ret = Routed(last.module, last.key))

\* A name held by both mappings is read: the Parameter is returned.
C10_Witness ==
    /\ last.op = "getattr"
    /\ last.key = "x"
    /\ "x" \notin DOMAIN fields[last.module]
    /\ HasKey(_parameters[last.module], "x")
    /\ HasKey(_modules[last.module], "x")
    /\ last.ret.kind = "Parameter"

---------------------------------------------------------------------------
(* Claims about Parameter *)

\* What Parameter(x, name) and update(x) leave behind, `given` saying when a name
\* counts as given.
ParameterMarked(given(_)) ==
    LET p == params[last.param]
        x == p.value
    IN  /\ x = last.x
        /\ HasRequiresGrad(x) =>
                /\ requires_grad[x] = TRUE
                /\ given(p.name) => vname[x] = p.name

NameKept == [][last'.op = "update" => params'[last'.param].name = params[last'.param].name]_vars

IsGiven(n) == ~n.isNone

\* C6 as stated: after Parameter(x, n) and after every update(x'), the wrapped
\* value, if it has requires_grad_, is marked and, if a name was given, carries
\* the Parameter's name.
C6_NameGivenIsCarried ==
    last.op \in {"Parameter", "update"} => ParameterMarked(IsGiven)

\* C6, amended: the same, the name being carried if a non-empty name was given;
\* update replaces the wrapped value and leaves the Parameter's name unchanged.
C6_ParameterInvariant ==
    /\ [](last.op \in {"Parameter", "update"} => ParameterMarked(Truthy))
    /\ NameKept

\* A named Parameter is updated to a value with requires_grad_.
C6_Witness ==
    /\ last.op = "update"
    /\ HasRequiresGrad(last.x)
    /\ params[last.param].name = Str("w")
    /\ vname[last.x] = Str("w")
    /\ requires_grad[last.x]

---------------------------------------------------------------------------
(* Operators *)

\* A Python number: the value n/d in lowest terms with d > 0, and its type, int
\* or float.  Arithmetic is exact; two numbers of equal value and different type
\* compare equal and are different objects.
RECURSIVE GCD(_, _)
GCD(a, b) == IF b = 0 THEN a ELSE GCD(b, a % b)
Magnitude(a) == IF a < 0 THEN -a ELSE a
Num(n, d, t) ==
    LET g == GCD(Magnitude(n), d) IN [n |-> n \div g, d |-> d \div g, t |-> t]
IntNum(i) == [n |-> i, d |-> 1, t |-> "int"]
FloatNum(i) == [n |-> i, d |-> 1, t |-> "float"]
Joined(x, y) == IF x.t = "float" \/ y.t = "float" THEN "float" ELSE "int"

\* A call returns a value or raises.
Ok(v) == [ok |-> TRUE, val |-> v]
Raise(e) == [ok |-> FALSE, err |-> e]

\* Python's x + y, x * y, -x, abs(x), x < y, x == y, x / y
Plus(x, y) == Num(x.n * y.d + y.n * x.d, x.d * y.d, Joined(x, y))
Times(x, y) == Num(x.n * y.n, x.d * y.d, Joined(x, y))
Minus(x) == [x EXCEPT !.n = -x.n]
AbsOf(x) == [x EXCEPT !.n = Magnitude(x.n)]
Less(x, y) == x.n * y.d < y.n * x.d
Equal(x, y) == x.n * y.d = y.n * x.d
TrueDiv(x, y) ==
    IF y.n = 0 THEN Raise("ZeroDivisionError")
    ELSE Ok(Num((IF y.n < 0 THEN -1 ELSE 1) * x.n * y.d, x.d * Magnitude(y.n), "float"))

mul(x, y) == Ok(Times(x, y))

RECURSIVE prodFrom(_, _)
prodFrom(result, lst) ==
    IF lst = <<>> THEN result ELSE prodFrom(Times(result, Head(lst)), Tail(lst))
prod(lst) == Ok(prodFrom(FloatNum(1), lst))

id(x) == Ok(x)

add(x, y) == Ok(Plus(x, y))

neg(x) == Ok(Minus(x))

lt(x, y) == Ok(Less(x, y))

eq(x, y) == Ok(Equal(x, y))

maxFirstOnTie(x, y) == Ok(IF ~Less(x, y) THEN x ELSE y)

max(x, y) == Ok(IF Less(y, x) THEN x ELSE y)

\* 1e-2
Tolerance == [n |-> 1, d |-> 100, t |-> "float"]
is_close(x, y) == Ok(Less(AbsOf(Plus(x, Minus(y))), Tolerance))

relu(x) == max(IntNum(0), x)

\* math.log(x): a ValueError off its domain, and ln x, which is left symbolic.
log(x) ==
    IF ~Less(IntNum(0), x) THEN Raise("ValueError") ELSE Ok([ln |-> x])

log_back(x, d) == TrueDiv(d, x)

invGuarded(x) == IF x.n = 0 THEN Ok(FloatNum(0)) ELSE TrueDiv(FloatNum(1), x)

inv(x) == TrueDiv(FloatNum(1), x)

inv_back(x, d) == TrueDiv(Minus(d), Times(x, x))

relu_back(x, d) == Ok(IF Less(IntNum(0), x) THEN d ELSE IntNum(0))

\* fn(x) and fn(x, y) for a function passed by name.
Call1(fn, x) ==
    CASE fn = "neg" -> neg(x)
      [] fn = "id" -> id(x)
      [] fn = "relu" -> relu(x)
      [] fn = "inv" -> inv(x)
Call2(fn, x, y) ==
    CASE fn = "add" -> add(x, y)
      [] fn = "mul" -> mul(x, y)
      [] fn = "max" -> max(x, y)
      [] fn = "log_back" -> log_back(x, y)

\* The results of a comprehension or a loop: the list of values, or the first
\* error raised.
Collected(rs) ==
    IF \E i \in 1..Len(rs) : ~rs[i].ok
    THEN rs[CHOOSE i \in 1..Len(rs) : ~rs[i].ok /\ \A j \in 1..(i - 1) : rs[j].ok]
    ELSE Ok([i \in 1..Len(rs) |-> rs[i].val])

map(fn, lst) == Collected([i \in 1..Len(lst) |-> Call1(fn, lst[i])])

ShorterLen(lst1, lst2) == IF Len(lst1) < Len(lst2) THEN Len(lst1) ELSE Len(lst2)

zipWithDroppingLast(fn, lst1, lst2) ==
    Collected([i \in 1..(ShorterLen(lst1, lst2) - 1) |-> Call2(fn, lst1[i], lst2[i])])

\* zip stops at the shorter list.
zipWith(fn, lst1, lst2) ==
    Collected([i \in 1..ShorterLen(lst1, lst2) |-> Call2(fn, lst1[i], lst2[i])])

RECURSIVE reduceFrom(_, _, _)
reduceFrom(fn, result, lst) ==
    IF lst = <<>> THEN Ok(result)
    ELSE LET r == Call2(fn, result, Head(lst))
         IN IF r.ok THEN reduceFrom(fn, r.val, Tail(lst)) ELSE r
reduce(fn, lst, start) == reduceFrom(fn, start, lst)

negList(lst) == map("neg", lst)

addLists(lst1, lst2) == zipWith("add", lst1, lst2)

sumList(lst) == reduce("add", lst, FloatNum(0))

prodList(lst) == reduce("mul", lst, FloatNum(1))

\* The arguments: ints and floats, and lists of floats.
Scalars == {IntNum(i) : i \in -MaxAbs..MaxAbs} \cup {FloatNum(i) : i \in -MaxAbs..MaxAbs}
Floats == {FloatNum(i) : i \in -MaxAbs..MaxAbs}
Lists == UNION {[1..n -> Floats] : n \in 0..MaxLen}
MapFns == {"neg", "id", "relu", "inv"}
ZipFns == {"add", "mul", "max", "log_back"}

tree == <<_modules, _parameters, fields, params, requires_grad, vname>>

\* A call and what it returned.  The operators keep no state: a call is made
\* from the initial state.
Call(op, args, ret) == [op |-> op, args |-> args, ret |-> ret]
Idle == last.op = "init"

Mul ==
    /\ Idle
    /\ \E x, y \in Scalars :
            last' = Call("mul", <<x, y>>, mul(x, y))
    /\ UNCHANGED tree

Prod ==
    /\ Idle
    /\ \E l \in Lists :
            last' = Call("prod", <<l>>, prod(l))
    /\ UNCHANGED tree

Id ==
    /\ Idle
    /\ \E x \in Scalars :
            last' = Call("id", <<x>>, id(x))
    /\ UNCHANGED tree

Add ==
    /\ Idle
    /\ \E x, y \in Scalars :
            last' = Call("add", <<x, y>>, add(x, y))
    /\ UNCHANGED tree

Neg ==
    /\ Idle
    /\ \E x \in Scalars :
            last' = Call("neg", <<x>>, neg(x))
    /\ UNCHANGED tree

Lt ==
    /\ Idle
    /\ \E x, y \in Scalars :
            last' = Call("lt", <<x, y>>, lt(x, y))
    /\ UNCHANGED tree

Eq ==
    /\ Idle
    /\ \E x, y \in Scalars :
            last' = Call("eq", <<x, y>>, eq(x, y))
    /\ UNCHANGED tree

Max ==
    /\ Idle
    /\ \E x, y \in Scalars :
            last' = Call("max", <<x, y>>, max(x, y))
    /\ UNCHANGED tree

IsClose ==
    /\ Idle
    /\ \E x, y \in Scalars :
            last' = Call("is_close", <<x, y>>, is_close(x, y))
    /\ UNCHANGED tree

Relu ==
    /\ Idle
    /\ \E x \in Scalars :
            last' = Call("relu", <<x>>, relu(x))
    /\ UNCHANGED tree

Log ==
    /\ Idle
    /\ \E x \in Scalars :
            last' = Call("log", <<x>>, log(x))
    /\ UNCHANGED tree

LogBack ==
    /\ Idle
    /\ \E x, d \in Scalars :
            last' = Call("log_back", <<x, d>>, log_back(x, d))
    /\ UNCHANGED tree

Inv ==
    /\ Idle
    /\ \E x \in Scalars :
            last' = Call("inv", <<x>>, inv(x))
    /\ UNCHANGED tree

InvBack ==
    /\ Idle
    /\ \E x, d \in Scalars :
            last' = Call("inv_back", <<x, d>>, inv_back(x, d))
    /\ UNCHANGED tree

ReluBack ==
    /\ Idle
    /\ \E x, d \in Scalars :
            last' = Call("relu_back", <<x, d>>, relu_back(x, d))
    /\ UNCHANGED tree

Map ==
    /\ Idle
    /\ \E fn \in MapFns, l \in Lists :
            last' = Call("map", <<fn, l>>, map(fn, l))
    /\ UNCHANGED tree

ZipWith ==
    /\ Idle
    /\ \E fn \in ZipFns, l1, l2 \in Lists :
            last' = Call("zipWith", <<fn, l1, l2>>, zipWith(fn, l1, l2))
    /\ UNCHANGED tree

Reduce ==
    /\ Idle
    /\ \E fn \in ZipFns, l \in Lists, start \in Floats :
            last' = Call("reduce", <<fn, l, start>>, reduce(fn, l, start))
    /\ UNCHANGED tree

NegList ==
    /\ Idle
    /\ \E l \in Lists :
            last' = Call("negList", <<l>>, negList(l))
    /\ UNCHANGED tree

AddLists ==
    /\ Idle
    /\ \E l1, l2 \in Lists :
            last' = Call("addLists", <<l1, l2>>, addLists(l1, l2))
    /\ UNCHANGED tree

SumList ==
    /\ Idle
    /\ \E l \in Lists :
            last' = Call("sumList", <<l>>, sumList(l))
    /\ UNCHANGED tree

ProdList ==
    /\ Idle
    /\ \E l \in Lists :
            last' = Call("prodList", <<l>>, prodList(l))
    /\ UNCHANGED tree

NextOps ==
    \/ Mul
    \/ Prod
    \/ Id
    \/ Add
    \/ Neg
    \/ Lt
    \/ Eq
    \/ Max
    \/ IsClose
    \/ Relu
    \/ Log
    \/ LogBack
    \/ Inv
    \/ InvBack
    \/ ReluBack
    \/ Map
    \/ ZipWith
    \/ Reduce
    \/ NegList
    \/ AddLists
    \/ SumList
    \/ ProdList

SpecOps == Init /\ [][NextOps]_vars

---------------------------------------------------------------------------
(* Claims about the operators *)

\* The operators the spec names as failing, and the functions that never fail
\* when passed to map, zipWith and reduce.
SpecFailing == {"log", "inv", "inv_back"}
TotalFns == {"neg", "id", "relu", "add", "mul", "max"}
HigherOrder == {"map", "zipWith", "reduce"}
AppliesTotalFn == last.op \in HigherOrder => last.args[1] \in TotalFns

\* C7 as stated: only log, inv and inv_back can fail; every other operator
\* returns a value for every numeric input (map, zipWith and reduce being given
\* a function that does not fail).
C7_OnlyLogInvFail ==
    (last.op \notin SpecFailing \cup {"init"} /\ AppliesTotalFn) => last.ret.ok

\* C7, amended: log fails for x <= 0, and inv, inv_back and log_back fail at
\* x = 0, and nowhere else; every other operator returns a value for every
\* numeric input.
C7_FailuresAreLogAndDivisions ==
    /\ last.op = "log" => (last.ret.ok <=> Less(IntNum(0), last.args[1]))
    /\ last.op \in {"inv", "inv_back", "log_back"} =>
            (last.ret.ok <=> ~Equal(last.args[1], IntNum(0)))
    /\ (last.op \notin SpecFailing \cup {"log_back", "init"} /\ AppliesTotalFn)
            => last.ret.ok

\* log_back raises at x = 0.
C7_Witness ==
    /\ last.op = "log_back"
    /\ Equal(last.args[1], IntNum(0))
    /\ ~last.ret.ok
    /\ last.ret.err = "ZeroDivisionError"

\* C8 as stated: max(x, y) returns y when y > x and x otherwise, so that on a tie
\* the first argument is the one returned.
C8_MaxTieReturnsFirst ==
    last.op = "max" =>
        /\ last.ret.ok
        /\ last.ret.val = IF Less(last.args[1], last.args[2]) THEN last.args[2] ELSE last.args[1]

\* C8, amended: max(x, y) returns x when x > y and y otherwise, so that on a tie
\* the second argument is the one returned; the result equals the larger
\* argument in value.
C8_MaxTieReturnsSecond ==
    last.op = "max" =>
        LET x == last.args[1]
            y == last.args[2]
        IN  /\ last.ret.ok
            /\ Less(y, x) => last.ret.val = x
            /\ Less(x, y) => last.ret.val = y
            /\ Equal(x, y) => last.ret.val = y
            /\ ~Less(last.ret.val, x) /\ ~Less(last.ret.val, y)

\* max(1, 1.0): a tie between two different objects returns the second.
C8_Witness ==
    /\ last.op = "max"
    /\ last.args = <<IntNum(1), FloatNum(1)>>
    /\ last.ret.val = FloatNum(1)

====
